---- MODULE Spec2Model ----
(***************************************************************************)
(* Battery cabinet pricing calculator: the pricing engine                  *)
(* (interpolation.py, interpolate_price), the reference catalog            *)
(* (battery_data.py, get_battery_data) and the "Calculate Price" handler   *)
(* of the Streamlit page (app.py).                                         *)
(*                                                                         *)
(* Units.  Power is in whole kW, energy in whole kWh, backup hours in      *)
(* tenths of an hour (2.7 h = 27), the module size in hundredths of a kWh  *)
(* (10.24 kWh = 1024) and the tariff percentage in tenths of a percent     *)
(* (73.8 % = 738).  Prices are exact rationals [n, d] in lowest terms; the *)
(* binary rounding of the float64 arithmetic of the source is not          *)
(* modelled.                                                               *)
(***************************************************************************)
EXTENDS Integers, Sequences, FiniteSets, TLC

(***************************************************************************)
(* Bounds of the model (the inputs a caller tries).                        *)
(***************************************************************************)
KwGrid == 15
MaxKwSteps == 6
KwhGrid == 20
MaxKwhSteps == 14
MaxHours == 70

(***************************************************************************)
(* Exact rational arithmetic for the prices.                               *)
(***************************************************************************)
Abs(x) == IF x < 0 THEN -x ELSE x

RECURSIVE Gcd(_, _)
Gcd(a, b) == IF b = 0 THEN a ELSE Gcd(b, a % b)

Rat(n, d) ==
    LET g == Gcd(Abs(n), Abs(d))
        s == IF d < 0 THEN -1 ELSE 1
    IN  [n |-> s * (n \div g), d |-> s * (d \div g)]

IntRat(i) == [n |-> i, d |-> 1]

RatAdd(a, b) ==
    LET g == Gcd(a.d, b.d)
    IN  Rat(a.n * (b.d \div g) + b.n * (a.d \div g), a.d * (b.d \div g))

RatNeg(a) == [n |-> -a.n, d |-> a.d]

RatSub(a, b) == RatAdd(a, RatNeg(b))

RatMul(a, b) ==
    LET g1 == Gcd(Abs(a.n), b.d)
        g2 == Gcd(Abs(b.n), a.d)
    IN  Rat((a.n \div g1) * (b.n \div g2), (a.d \div g2) * (b.d \div g1))

RatDiv(a, b) == RatMul(a, Rat(b.d, b.n))

RatLeq(a, b) == RatSub(a, b).n <= 0

RatLt(a, b) == RatSub(a, b).n < 0

Zero == IntRat(0)

\* np.ceil(a / b) for b # 0
CeilDiv(a, b) ==
    IF b > 0 THEN -((-a) \div b) ELSE -(a \div (-b))

(***************************************************************************)
(* battery_data.py: the reference catalog.  A DataFrame is the sequence of *)
(* its rows; a row maps each column to its value and carries its index     *)
(* label.                                                                  *)
(***************************************************************************)
CatalogRow(i, v, kw, kwh, h, pw, pwo) ==
    [index |-> i, model_name |-> << "Model", i + 1 >>, voltage |-> v, kW |-> kw, kWh |-> kwh, backup_hours |-> h,
     price_with_tariff |-> pw, price_without_tariff |-> pwo,
     tariff |-> pw - pwo]

get_battery_data ==
    << CatalogRow(0, 208, 30, 81, 27, 90000, 54700),
       CatalogRow(1, 208, 30, 122, 41, 105100, 63000),
       CatalogRow(2, 208, 30, 184, 61, 133300, 78400),
       CatalogRow(3, 208, 50, 122, 24, 123000, 71400),
       CatalogRow(4, 208, 50, 184, 37, 151300, 86800),
       CatalogRow(5, 208, 50, 245, 49, 173900, 99100),
       CatalogRow(6, 480, 30, 81, 27, 90000, 54700),
       CatalogRow(7, 480, 30, 122, 41, 105100, 63000),
       CatalogRow(8, 480, 30, 184, 61, 133300, 78400),
       CatalogRow(9, 480, 60, 122, 20, 123000, 71400),
       CatalogRow(10, 480, 60, 184, 31, 151300, 86800),
       CatalogRow(11, 480, 60, 245, 41, 173900, 99100),
       CatalogRow(12, 480, 90, 184, 20, 166800, 95300),
       CatalogRow(13, 480, 90, 245, 27, 189500, 107600),
       CatalogRow(14, 480, 90, 266, 30, 197000, 111700) >>

Columns(df) == IF df = << >> THEN {} ELSE DOMAIN df[1] \ {"index"}

RowSet(df) == {df[i] : i \in DOMAIN df}

ColumnValues(df, col) == {df[i][col] : i \in DOMAIN df}

SetMin(S) == CHOOSE x \in S : \A y \in S : x <= y

SetMax(S) == CHOOSE x \in S : \A y \in S : x >= y

\* df[mask], the rows satisfying the mask in the order of df, is
\* SelectSeq(df, mask).

\* df.sort_values(col): the default kind is quicksort, which is not a stable
\* sort, so rows with equal keys may come out in any order.
RECURSIVE SortedSeqs(_, _, _)
SortedSeqs(S, col, ascending) ==
    IF S = {} THEN { << >> }
    ELSE LET keys == {r[col] : r \in S}
             k == IF ascending THEN SetMin(keys) ELSE SetMax(keys)
         IN  UNION { { << r >> \o t : t \in SortedSeqs(S \ {r}, col, ascending) }
                     : r \in {x \in S : x[col] = k} }

sort_values(df, col, ascending) == SortedSeqs(RowSet(df), col, ascending)

(***************************************************************************)
(* interpolation.py: interpolate_price.                                    *)
(***************************************************************************)
None == [index |-> -1]

NoReturn == [status |-> "none"]

Raise(exc, message) == [status |-> "raise", exc |-> exc, message |-> message]

Return(d) == [status |-> "return", value |-> d]

NoModelsFound_ReturnsNone(voltage) == Return(None)

\* line 39
NoModelsFound(voltage) ==
    Raise("ValueError",
          << "No pre-configured models found for voltage", voltage, "V" >>)

\* line 43, kwh / module_size with module_size = 0
DivisionByZero == Raise("ZeroDivisionError", << "float division by zero" >>)

\* The objects of a call: the caller's catalog and the frame the function
\* works on.  filtered_df is made with .copy(), so it is an object of its own.
filtered_ref_Aliased == "battery_df"

filtered_ref == "filtered_df"

\* target[col] = values, one value per row of the target object
AssignColumn(heap, ref, col, values) ==
    [heap EXCEPT ![ref] =
        [i \in DOMAIN heap[ref] |-> (col :> values[i]) @@ heap[ref][i]]]

Modules_Floor(kwh, module_size) == (kwh * 100) \div module_size

\* np.ceil(kWh / module_size).astype(int)
Modules(kwh, module_size) == CeilDiv(kwh * 100, module_size)

\* the column a row-wise expression over df evaluates to
ModulesColumn(df, module_size) ==
    [i \in DOMAIN df |-> Modules(df[i].kWh, module_size)]

PricePerModuleColumn(df) ==
    [i \in DOMAIN df |-> Rat(df[i].price_without_tariff, df[i].modules)]

PowerBand_AllAbove(filtered_df, kw) ==
    LET models_by_kw == SelectSeq(filtered_df, LAMBDA r : r.kW = kw)
        models_above_kw == SelectSeq(filtered_df, LAMBDA r : r.kW > kw)
        models_below_kw == SelectSeq(filtered_df, LAMBDA r : r.kW < kw)
    IN  IF models_by_kw # << >> THEN models_by_kw
        ELSE IF models_above_kw # << >> THEN models_above_kw
        ELSE models_below_kw

\* lines 49-71: the rows of the power band
PowerBand(filtered_df, kw) ==
    LET models_by_kw == SelectSeq(filtered_df, LAMBDA r : r.kW = kw)
        above0 == SelectSeq(filtered_df, LAMBDA r : r.kW > kw)
        below0 == SelectSeq(filtered_df, LAMBDA r : r.kW < kw)
        kw_above == (CHOOSE s \in sort_values(above0, "kW", TRUE) : TRUE)[1].kW
        kw_below == (CHOOSE s \in sort_values(below0, "kW", FALSE) : TRUE)[1].kW
        models_above_kw ==
            IF above0 # << >>
            THEN SelectSeq(filtered_df, LAMBDA r : r.kW = kw_above)
            ELSE above0
        models_below_kw ==
            IF below0 # << >>
            THEN SelectSeq(filtered_df, LAMBDA r : r.kW = kw_below)
            ELSE below0
    IN  IF models_by_kw # << >> THEN models_by_kw
        ELSE IF models_above_kw # << >> /\ models_below_kw # << >>
             THEN models_above_kw \o models_below_kw
        ELSE IF models_above_kw # << >> THEN models_above_kw
        ELSE IF models_below_kw # << >> THEN models_below_kw
        ELSE models_by_kw

ModelAbove_Strict(models_by_kw_sorted, modules_needed) ==
    LET models_above ==
            SelectSeq(models_by_kw_sorted, LAMBDA r : r.modules > modules_needed)
    IN  IF models_above # << >> THEN models_above[1] ELSE None

\* lines 82-84: the first row with modules >= target
ModelAbove(models_by_kw_sorted, modules_needed) ==
    LET models_above ==
            SelectSeq(models_by_kw_sorted, LAMBDA r : r.modules >= modules_needed)
    IN  IF models_above # << >> THEN models_above[1] ELSE None

ModelBelow_First(models_by_kw_sorted, modules_needed) ==
    LET models_below ==
            SelectSeq(models_by_kw_sorted, LAMBDA r : r.modules < modules_needed)
    IN  IF models_below # << >> THEN models_below[1] ELSE None

\* lines 87-89: the last row with modules < target
ModelBelow(models_by_kw_sorted, modules_needed) ==
    LET models_below ==
            SelectSeq(models_by_kw_sorted, LAMBDA r : r.modules < modules_needed)
    IN  IF models_below # << >> THEN models_below[Len(models_below)] ELSE None

Priced(without, upper, lower, branch) ==
    [without_tariff_estimated |-> without, upper_price |-> upper,
     lower_price |-> lower, branch |-> branch]

Case1_PerUpperModule(model_above, model_below, modules_needed) ==
    LET upper_price == model_above.price_without_tariff
        lower_price == model_below.price_without_tariff
        price_per_module_in_gap == Rat(upper_price - lower_price, model_above.modules)
        modules_from_lower == modules_needed - model_below.modules
    IN  Priced(RatAdd(IntRat(lower_price),
                      RatMul(IntRat(modules_from_lower), price_per_module_in_gap)),
               upper_price, lower_price, "case1_gap")

\* lines 97-118: models both above and below
Case1(model_above, model_below, modules_needed) ==
    LET upper_modules == model_above.modules
        lower_modules == model_below.modules
        upper_price == model_above.price_without_tariff
        lower_price == model_below.price_without_tariff
        module_diff == upper_modules - lower_modules
        price_diff == upper_price - lower_price
        price_per_module_in_gap == Rat(price_diff, module_diff)
        modules_from_lower == modules_needed - lower_modules
        price_adjustment == RatMul(IntRat(modules_from_lower), price_per_module_in_gap)
    IN  IF module_diff > 0
        THEN Priced(RatAdd(IntRat(lower_price), price_adjustment),
                    upper_price, lower_price, "case1_gap")
        ELSE Priced(Rat(upper_price + lower_price, 2),
                    upper_price, lower_price, "case1_average")

\* price_per_module = price / modules; price_per_module * modules_needed
Flat(price, modules, modules_needed) ==
    RatMul(Rat(price, modules), IntRat(modules_needed))

\* lines 121-152: only a model below
Case2(filtered_df, model_below, modules_needed) ==
    LET lower_modules == model_below.modules
        lower_price == model_below.price_without_tariff
        same_kw == SelectSeq(filtered_df, LAMBDA r : r.kW = model_below.kW)
        flat == Flat(lower_price, lower_modules, modules_needed)
        Gap(same_kw_models) ==
            LET higher_models ==
                    SelectSeq(same_kw_models, LAMBDA r : r.modules > lower_modules)
                next_higher == higher_models[1]
                module_diff == next_higher.modules - lower_modules
                price_diff == next_higher.price_without_tariff - lower_price
                modules_to_add == modules_needed - lower_modules
            IN  IF higher_models # << >>
                THEN IF module_diff > 0
                     THEN Priced(RatAdd(IntRat(lower_price),
                                        RatMul(IntRat(modules_to_add),
                                               Rat(price_diff, module_diff))),
                                 0, lower_price, "case2_gap")
                     ELSE Priced(flat, 0, lower_price, "case2_same_count")
                ELSE Priced(flat, 0, lower_price, "case2_no_higher")
    IN  IF Len(same_kw) > 1
        THEN {Gap(s) : s \in sort_values(same_kw, "modules", TRUE)}
        ELSE {Priced(flat, 0, lower_price, "case2_single")}

\* lines 155-186: only a model above
Case3(filtered_df, model_above, modules_needed) ==
    LET upper_modules == model_above.modules
        upper_price == model_above.price_without_tariff
        same_kw == SelectSeq(filtered_df, LAMBDA r : r.kW = model_above.kW)
        flat == Flat(upper_price, upper_modules, modules_needed)
        Gap(same_kw_models) ==
            LET lower_models ==
                    SelectSeq(same_kw_models, LAMBDA r : r.modules < upper_modules)
                next_lower == lower_models[Len(lower_models)]
                module_diff == upper_modules - next_lower.modules
                price_diff == upper_price - next_lower.price_without_tariff
                modules_to_subtract == upper_modules - modules_needed
            IN  IF lower_models # << >>
                THEN IF module_diff > 0
                     THEN Priced(RatSub(IntRat(upper_price),
                                        RatMul(IntRat(modules_to_subtract),
                                               Rat(price_diff, module_diff))),
                                 upper_price, 0, "case3_gap")
                     ELSE Priced(flat, upper_price, 0, "case3_same_count")
                ELSE Priced(flat, upper_price, 0, "case3_no_lower")
    IN  IF Len(same_kw) > 1
        THEN {Gap(s) : s \in sort_values(same_kw, "modules", TRUE)}
        ELSE {Priced(flat, upper_price, 0, "case3_single")}

RECURSIVE RatSum(_)
RatSum(s) == IF s = << >> THEN Zero ELSE RatAdd(Head(s), RatSum(Tail(s)))

\* lines 189-193: the mean price per module of the voltage class
Case4(filtered_df, modules_needed) ==
    LET avg_price_per_module ==
            RatDiv(RatSum([i \in DOMAIN filtered_df |-> filtered_df[i].price_per_module]),
                   IntRat(Len(filtered_df)))
    IN  Priced(RatMul(avg_price_per_module, IntRat(modules_needed)), 0, 0, "case4_mean")

TariffAmount_Default(without_tariff_estimated, tariff_percentage) ==
    RatMul(without_tariff_estimated, Rat(738, 1000))

\* line 196: without_tariff_estimated * (tariff_percentage / 100)
TariffAmount(without_tariff_estimated, tariff_percentage) ==
    RatMul(without_tariff_estimated, Rat(tariff_percentage, 1000))

ExcludeTariff_KeepsAmount(price_estimates) ==
    [price_estimates EXCEPT !.with_tariff = price_estimates.without_tariff]

\* lines 218-220: the tariff is not included
ExcludeTariff(price_estimates) ==
    [price_estimates EXCEPT !.with_tariff = price_estimates.without_tariff,
                            !.tariff_only = Zero]

\* lines 195-222: the result dictionary
PriceEstimates(p, modules_needed, include_tariff, tariff_percentage) ==
    LET without_tariff_estimated == p.without_tariff_estimated
        tariff_amount == TariffAmount(without_tariff_estimated, tariff_percentage)
        with_tariff_estimated == RatAdd(without_tariff_estimated, tariff_amount)
        price_per_module ==
            IF modules_needed > 0
            THEN RatDiv(without_tariff_estimated, IntRat(modules_needed))
            ELSE Zero
        price_estimates ==
            [with_tariff |-> with_tariff_estimated,
             without_tariff |-> without_tariff_estimated,
             tariff_only |-> tariff_amount,
             tariff_percentage |-> tariff_percentage,
             modules_needed |-> modules_needed,
             price_per_module |-> price_per_module,
             upper_price |-> p.upper_price,
             lower_price |-> p.lower_price,
             interpolation_method |-> "exact_gap"]
    IN  IF ~include_tariff THEN ExcludeTariff(price_estimates) ELSE price_estimates

NoLocals ==
    [modules_needed |-> 0, models_by_kw |-> << >>,
     models_by_kw_sorted |-> << >>, model_above |-> None,
     model_below |-> None, branch |-> "none"]

Outcome(r, df, l) == [ret |-> r, battery_df |-> df, locals |-> l]

\* The set of ways one call can end: what it returns or raises, the caller's
\* catalog afterwards, and the locals of the frame when it ended.
interpolate_price(df, voltage, kw, kwh, hours, include_tariff, module_size, tariff_percentage) ==
    LET heap0 == [battery_df |-> df,
                  filtered_df |-> SelectSeq(df, LAMBDA r : r.voltage = voltage)]
    IN  IF heap0[filtered_ref] = << >>
        THEN {Outcome(NoModelsFound(voltage), heap0.battery_df, NoLocals)}
        ELSE IF module_size = 0
        THEN {Outcome(DivisionByZero, heap0.battery_df, NoLocals)}
        ELSE
        LET modules_needed == Modules(kwh, module_size)
            heap1 == AssignColumn(heap0, filtered_ref, "modules",
                                  ModulesColumn(heap0[filtered_ref], module_size))
            filtered_df == heap1[filtered_ref]
            models_by_kw == PowerBand(filtered_df, kw)
            heap2 == AssignColumn(heap1, filtered_ref, "price_per_module",
                                  PricePerModuleColumn(heap1[filtered_ref]))
            After(models_by_kw_sorted) ==
                LET model_above == ModelAbove(models_by_kw_sorted, modules_needed)
                    model_below == ModelBelow(models_by_kw_sorted, modules_needed)
                    priced ==
                        IF model_above # None /\ model_below # None
                        THEN {[p |-> Case1(model_above, model_below, modules_needed),
                               h |-> heap1]}
                        ELSE IF model_below # None
                        THEN {[p |-> x, h |-> heap1] :
                                x \in Case2(filtered_df, model_below, modules_needed)}
                        ELSE IF model_above # None
                        THEN {[p |-> x, h |-> heap1] :
                                x \in Case3(filtered_df, model_above, modules_needed)}
                        ELSE {[p |-> Case4(heap2[filtered_ref], modules_needed),
                               h |-> heap2]}
                IN  {Outcome(Return(PriceEstimates(x.p, modules_needed, include_tariff,
                                                   tariff_percentage)),
                             x.h.battery_df,
                             [modules_needed |-> modules_needed,
                              models_by_kw |-> models_by_kw,
                              models_by_kw_sorted |-> models_by_kw_sorted,
                              model_above |-> model_above,
                              model_below |-> model_below,
                              branch |-> x.p.branch]) : x \in priced}
        IN  UNION {After(s) : s \in sort_values(models_by_kw, "modules", TRUE)}

(***************************************************************************)
(* app.py: the page.  query is the configuration the caller has entered:   *)
(* the widgets of the page, or the arguments of a direct call.             *)
(***************************************************************************)
VARIABLES battery_df, query, ret, locals, ui

vars == << battery_df, query, ret, locals, ui >>

DefaultModuleSize == 1024
DefaultTariffPercentage == 738
SliderDefault == 645
SliderMax == 1000
SliderStep == 5

VoltageValues == ColumnValues(get_battery_data, "voltage") \cup {600}

KwValues ==
    {k * KwGrid : k \in 0..MaxKwSteps} \cup ColumnValues(get_battery_data, "kW")

KwhValues ==
    {k * KwhGrid : k \in -1..MaxKwhSteps} \cup ColumnValues(get_battery_data, "kWh")

HoursValues == {0, 27, MaxHours}

ModuleSizes == {0, DefaultModuleSize}

TariffValues == {0, SliderDefault, DefaultTariffPercentage}

BlankUi == [error |-> "none", warnings |-> {}, shown |-> FALSE]

\* app.py 34-42
voltage_options == ColumnValues(battery_df, "voltage")

AppFiltered(voltage) == SelectSeq(battery_df, LAMBDA r : r.voltage = voltage)

InRange(x, df, col) ==
    SetMin(ColumnValues(df, col)) <= x /\ x <= SetMax(ColumnValues(df, col))

\* app.py 35-111: what the widgets of the page let the user enter
Enterable(q) ==
    /\ q.voltage \in voltage_options
    /\ InRange(q.kw, AppFiltered(q.voltage), "kW")
    /\ InRange(q.kwh, AppFiltered(q.voltage), "kWh")
    /\ InRange(q.hours, AppFiltered(q.voltage), "backup_hours")
    /\ q.module_size = DefaultModuleSize
    /\ q.tariff_percentage \in 0..SliderMax
    /\ q.tariff_percentage % SliderStep = 0

Init ==
    /\ battery_df = get_battery_data
    /\ query = [voltage |-> 208, kw |-> 30, kwh |-> 81, hours |-> 27,
                include_tariff |-> TRUE, module_size |-> DefaultModuleSize,
                tariff_percentage |-> SliderDefault]
    /\ ret = NoReturn
    /\ locals = NoLocals
    /\ ui = BlankUi

Enter(q) ==
    /\ query' = q
    /\ ret' = NoReturn
    /\ locals' = NoLocals
    /\ ui' = BlankUi
    /\ UNCHANGED battery_df

SetVoltage == \E v \in VoltageValues : Enter([query EXCEPT !.voltage = v])

SetKw == \E k \in KwValues : Enter([query EXCEPT !.kw = k])

SetKwh == \E e \in KwhValues : Enter([query EXCEPT !.kwh = e])

SetHours == \E h \in HoursValues : Enter([query EXCEPT !.hours = h])

SetIncludeTariff == \E b \in BOOLEAN : Enter([query EXCEPT !.include_tariff = b])

SetModuleSize == \E m \in ModuleSizes : Enter([query EXCEPT !.module_size = m])

SetTariffPercentage ==
    \E t \in TariffValues : Enter([query EXCEPT !.tariff_percentage = t])

Call(q) ==
    interpolate_price(battery_df, q.voltage, q.kw, q.kwh, q.hours,
                      q.include_tariff, q.module_size, q.tariff_percentage)

\* a caller of the engine other than the page
CallInterpolatePrice ==
    \E o \in Call(query) :
        /\ ret' = o.ret
        /\ battery_df' = o.battery_df
        /\ locals' = o.locals
        /\ ui' = BlankUi
        /\ UNCHANGED query

\* app.py 125-132
Warnings(q) ==
    LET filtered_df == AppFiltered(q.voltage)
    IN  {c \in {"kW", "kWh", "backup_hours"} :
            ~InRange(CASE c = "kW" -> q.kw [] c = "kWh" -> q.kwh [] OTHER -> q.hours,
                     filtered_df, c)}

\* app.py 117
InvalidInputs(q) ==
    q.kw <= 0 \/ q.kwh <= 0 \/ q.hours <= 0 \/ q.module_size <= 0

\* app.py 114-192: the "Calculate Price" button
CalculatePrice ==
    /\ Enterable(query)
    /\ IF InvalidInputs(query)
       THEN /\ ui' = [error |-> "All values must be greater than zero.",
                      warnings |-> {}, shown |-> FALSE]
            /\ ret' = NoReturn
            /\ locals' = NoLocals
            /\ UNCHANGED << battery_df, query >>
       ELSE \E o \in Call(query) :
            /\ ret' = o.ret
            /\ battery_df' = o.battery_df
            /\ locals' = o.locals
            /\ ui' = IF o.ret.status = "raise"
                     THEN [error |-> "An error occurred during calculation",
                           warnings |-> Warnings(query), shown |-> FALSE]
                     ELSE [error |-> "none", warnings |-> Warnings(query),
                           shown |-> TRUE]
            /\ UNCHANGED query

Next ==
    \/ SetVoltage
    \/ SetKw
    \/ SetKwh
    \/ SetHours
    \/ SetIncludeTariff
    \/ SetModuleSize
    \/ SetTariffPercentage
    \/ CallInterpolatePrice
    \/ CalculatePrice

Spec == Init /\ [][Next]_vars

(***************************************************************************)
(* Properties.                                                             *)
(***************************************************************************)
Returned == ret.status = "return"

Called == ret # NoReturn

KnownVoltage(q) == q.voltage \in ColumnValues(battery_df, "voltage")

Valid(q) ==
    /\ ~InvalidInputs(q)
    /\ q.tariff_percentage \in 0..SliderMax
    /\ KnownVoltage(q)

MatchingRows(q) ==
    {r \in RowSet(battery_df) :
        r.voltage = q.voltage /\ r.kW = q.kw /\ r.kWh = q.kwh}

\* C1: for a valid query the returned prices satisfy
\* with_tariff >= without_tariff >= 0 and
\* with_tariff = without_tariff + tariff_only, with or without the tariff.
C1_TariffDecomposition ==
    (Returned /\ Valid(query)) =>
        LET v == ret.value
        IN  /\ RatLeq(Zero, v.without_tariff)
            /\ RatLeq(v.without_tariff, v.with_tariff)
            /\ v.with_tariff = RatAdd(v.without_tariff, v.tariff_only)

C1_Witness ==
    /\ Returned
    /\ Valid(query)
    /\ ~query.include_tariff
    /\ query.tariff_percentage > 0
    /\ RatLt(Zero, ret.value.without_tariff)

\* C2: with voltage, power and module size fixed, a valid query never gets a
\* lower without_tariff estimate than a valid query of lower or equal energy.
\* (The band to sort is the same for both queries, so both calls see it in
\* the same order.)
C2_MonotoneInEnergy ==
    (Returned /\ Valid(query)) =>
        \A e \in KwhValues :
            (0 < e /\ e <= query.kwh) =>
                \A o \in Call([query EXCEPT !.kwh = e]) :
                    o.locals.models_by_kw_sorted = locals.models_by_kw_sorted =>
                        RatLeq(o.ret.value.without_tariff, ret.value.without_tariff)

\* C3: a query with the voltage, power and energy of a catalog row and the
\* default module size returns exactly that row's price_without_tariff.
C3_ExactRowPrice ==
    (Returned /\ query.module_size = DefaultModuleSize) =>
        \A r \in MatchingRows(query) :
            ret.value.without_tariff = IntRat(r.price_without_tariff)

C3_Witness ==
    /\ Returned
    /\ query.module_size = DefaultModuleSize
    /\ MatchingRows(query) # {}
    /\ locals.model_below # None
    /\ locals.model_above.index \in {r.index : r \in MatchingRows(query)}

Example(q) ==
    /\ q.voltage = 480
    /\ q.kw = 30
    /\ q.kwh = 100
    /\ q.module_size = 1024
    /\ q.tariff_percentage = 738
    /\ q.include_tariff

BandModules(kwh) ==
    {r.modules : r \in {x \in RowSet(locals.models_by_kw) : x.kWh = kwh}}

About(x, target) ==
    RatLeq(IntRat(target - 1), x) /\ RatLeq(x, IntRat(target + 1))

\* C4 as stated: the 81 kWh row counts as 9 modules and the 122 kWh row as 12,
\* and the example query returns 10 modules, about 57467 without tariff, about
\* 42419 of tariff and about 99886 with tariff.
C4_AsStated ==
    (Returned /\ Example(query)) =>
        /\ BandModules(81) = {9}
        /\ BandModules(122) = {12}
        /\ ret.value.modules_needed = 10
        /\ About(ret.value.without_tariff, 57467)
        /\ About(ret.value.tariff_only, 42419)
        /\ About(ret.value.with_tariff, 99886)

\* C4: the 81 kWh row counts as 8 modules and the 122 kWh row as 12, and the
\* example query returns 10 modules, 58850 without tariff
\* (54700 + (10-8)/(12-8)*(63000-54700)), 43431.3 of tariff and 102281.3 with
\* tariff.
C4_ExampleQuery ==
    (Returned /\ Example(query)) =>
        /\ BandModules(81) = {8}
        /\ BandModules(122) = {12}
        /\ ret.value.modules_needed = 10
        /\ ret.value.without_tariff = IntRat(58850)
        /\ ret.value.tariff_only = Rat(434313, 10)
        /\ ret.value.with_tariff = Rat(1022813, 10)

C4_Witness ==
    /\ Returned
    /\ Example(query)
    /\ locals.branch = "case1_gap"

\* C5: a request with power, energy, backup hours or module size <= 0 fails
\* and the engine returns no estimate for it.
C5_InvalidInputRejected ==
    (Called /\ InvalidInputs(query)) => ret.status = "raise"

\* C6: a query whose voltage matches no catalog row raises the error that
\* names the voltage, before any module count or price is computed, and no
\* estimate is returned or shown.
C6_UnknownVoltage ==
    (Called /\ ~KnownVoltage(query)) =>
        /\ ret.status = "raise"
        /\ ret.exc = "ValueError"
        /\ ret.message[2] = query.voltage
        /\ locals = NoLocals
        /\ ~ui.shown

C6_Witness ==
    /\ Called
    /\ ~KnownVoltage(query)
    /\ query.module_size = 0
    /\ ret.status = "raise"

\* C7: the tariff returned is without_tariff * tariff_percentage / 100 for the
\* caller's tariff_percentage when the tariff is included, and 0 with
\* with_tariff = without_tariff when it is not.
C7_TariffAmount ==
    (Returned /\ query.tariff_percentage \in 0..SliderMax) =>
        LET v == ret.value
        IN  IF query.include_tariff
            THEN /\ RatMul(v.tariff_only, IntRat(1000))
                        = RatMul(v.without_tariff, IntRat(query.tariff_percentage))
                 /\ v.tariff_percentage = query.tariff_percentage
            ELSE /\ v.tariff_only = Zero
                 /\ v.with_tariff = v.without_tariff

C7_Witness ==
    /\ Returned
    /\ ui.shown
    /\ query.include_tariff
    /\ query.tariff_percentage = SliderDefault
    /\ RatLt(Zero, ret.value.tariff_only)

\* C8: whatever calls were made, the catalog has the rows, columns and values
\* it was loaded with; no 'modules' or 'price_per_module' column is added.
C8_CatalogUnchanged ==
    /\ battery_df = get_battery_data
    /\ Columns(battery_df) \cap {"modules", "price_per_module"} = {}

C8_Witness ==
    /\ Returned
    /\ "modules" \in DOMAIN locals.model_above
    /\ battery_df = get_battery_data

\* C9: among the candidates of the band with the same module count, the upper
\* and the lower bracket are each the one with the lowest catalog index.
C9_LowestIndexTieBreak ==
    Returned =>
        \A m \in {locals.model_above, locals.model_below} \ {None} :
            \A r \in RowSet(locals.models_by_kw) :
                r.modules = m.modules => m.index <= r.index

\* C10: a valid query outside the ranges of its voltage class is answered, and
\* the result carries an extrapolated flag for power, energy and hours that is
\* true exactly when that input is outside the range.
C10_ExtrapolatedFlags ==
    (Called /\ Valid(query)) =>
        /\ Returned
        /\ "extrapolated" \in DOMAIN ret.value
        /\ ret.value.extrapolated =
              [power |-> "kW" \in Warnings(query),
               energy |-> "kWh" \in Warnings(query),
               hours |-> "backup_hours" \in Warnings(query)]

\* C11: for a valid query modules_needed is the ceiling of
\* energy_kwh / module_size, the least integer n with n * module_size >=
\* energy_kwh, and it is at least 1.
C11_ModulesNeeded ==
    (Returned /\ Valid(query)) =>
        LET n == ret.value.modules_needed
        IN  /\ n \in Int
            /\ n >= 1
            /\ n * query.module_size >= query.kwh * 100
            /\ (n - 1) * query.module_size < query.kwh * 100

C11_Witness ==
    /\ Returned
    /\ Valid(query)
    /\ ret.value.modules_needed > 1
    /\ (query.kwh * 100) % query.module_size # 0

Band == RowSet(locals.models_by_kw)

OnlyAbove == Band # {} /\ \A r \in Band : r.modules >= locals.modules_needed

OnlyBelow == Band # {} /\ \A r \in Band : r.modules < locals.modules_needed

\* C12: when the band has rows on only one side of modules_needed, the
\* estimate is the bracket row's price_without_tariff / module_count times
\* modules_needed, and it is never produced by a gap-slope branch.
C12_OneSidedIsFlat ==
    (Returned /\ (OnlyAbove \/ OnlyBelow)) =>
        LET m == IF OnlyAbove THEN locals.model_above ELSE locals.model_below
        IN  /\ m # None
            /\ (IF OnlyAbove THEN locals.model_below ELSE locals.model_above) = None
            /\ ret.value.without_tariff =
                  RatMul(Rat(m.price_without_tariff, m.modules),
                         IntRat(locals.modules_needed))
            /\ locals.branch \notin {"case2_gap", "case3_gap"}

C12_Witness ==
    /\ Returned
    /\ Valid(query)
    /\ OnlyBelow
    /\ Cardinality({r \in Band : r.kW = locals.model_below.kW}) > 1
    /\ locals.branch = "case2_no_higher"

VoltageSubset(q) == {r \in RowSet(battery_df) : r.voltage = q.voltage}

PowersAbove(q) == {r.kW : r \in {x \in VoltageSubset(q) : x.kW > q.kw}}

PowersBelow(q) == {r.kW : r \in {x \in VoltageSubset(q) : x.kW < q.kw}}

ExpectedCandidates(q) ==
    IF \E r \in VoltageSubset(q) : r.kW = q.kw
    THEN {r \in VoltageSubset(q) : r.kW = q.kw}
    ELSE {r \in VoltageSubset(q) :
            \/ PowersAbove(q) # {} /\ r.kW = SetMin(PowersAbove(q))
            \/ PowersBelow(q) # {} /\ r.kW = SetMax(PowersBelow(q))}

\* C13: the candidates for bracketing are the rows of the voltage subset at
\* the query's power when there are any, otherwise the rows at the nearest
\* power above together with the rows at the nearest power below (the side
\* that exists when one is absent), each once; the set is never empty.
C13_CandidateSet ==
    Returned =>
        /\ {r.index : r \in Band} = {r.index : r \in ExpectedCandidates(query)}
        /\ Len(locals.models_by_kw) = Cardinality(Band)
        /\ Band # {}

C13_Witness ==
    /\ Returned
    /\ PowersAbove(query) # {}
    /\ PowersBelow(query) # {}
    /\ query.kw \notin {r.kW : r \in VoltageSubset(query)}
    /\ Cardinality({r.kW : r \in Band}) = 2
    /\ Cardinality({r.kW : r \in VoltageSubset(query)}) > 2

====
